---- MODULE Spec2Model ----
(***************************************************************************)
(* libsddc: the device handle (struct sddc) and the control operations of  *)
(* libsddc.c, as a state machine.  One action per public function; the     *)
(* USB transport and the streaming engine are collaborators whose calls   *)
(* are recorded in the per-call trace.                                     *)
(*                                                                         *)
(* Units: dB values (double in C) are integers in tenths of a dB; rates,   *)
(* frequencies and ppm are integers (the inputs drawn are integral).       *)
(***************************************************************************)
EXTENDS Integers, Sequences, FiniteSets, TLC

VARIABLES
  this,    \* the fields of struct sddc
  gpio,    \* device side: the set of GPIO bits that are on
  sess,    \* streaming collaborator: state of every session object
  usb,     \* USB collaborator: the connection behind this->usb_device
  last     \* observer: the last call (op, arg, ret, trace, handle before)

vars == <<this, gpio, sess, usb, last>>

(* ------------------------------ bounds -------------------------------- *)

\* a call's fail input says which collaborator call of the trace fails
MaxFail == 5
\* session objects the streaming collaborator can hand out
MaxSessions == 2

(* ------------------- enumerations of libsddc.h ------------------------ *)

SDDC_STATUS_OFF == 0
SDDC_STATUS_READY == 1
SDDC_STATUS_STREAMING == 2
SDDC_STATUS_FAILED == 255

HW_NORADIO == 0
HW_BBRF103 == 1
HW_HF103 == 2
HW_RX888 == 3
HW_RX888R2 == 4
HW_RX999 == 5

NO_RF_MODE == 0
HF_MODE == 1
VHF_MODE == 2

LED_YELLOW == 1
LED_RED == 2
LED_BLUE == 4

(* ------------------- constants of libsddc.c --------------------------- *)

DEFAULT_SAMPLE_RATE == 64000000
DEFAULT_TUNER_FREQUENCY == 999000
DEFAULT_FREQ_CORR_PPM == 0
DEFAULT_HF_ATTENUATION == 0
DEFAULT_TUNER_ATTENUATION == 0
TUNER_CLOCK == 32000000
\* this->hf_vga_gain = 0x25
DEFAULT_HF_VGA_GAIN == 37

GPIO_ADC_SHDN == 32
GPIO_ATT_SEL0 == 8192
GPIO_ATT_SEL1 == 16384
GPIO_LED_SHIFT == 10

FW_REG_R82XX_ATTENUATOR == 1
FW_REG_R82XX_VGA == 2
FW_REG_DAT31_ATT == 10
FW_REG_AD8370_VGA == 11

\* libsddc.h: the three VGA macros (the .c file spells them AD8370_*)
AD8370_HIGH_MODE == 128
AD8370_LOW_MODE == 0
AD8370_GAIN_SWEET_POINT == 18

(* --------------------------- input sets ------------------------------- *)

\* data[0] of the TESTFX3 reply; 6 is an id outside enum SDDCHWModel
HwModelIds == 0..6
\* <<data[1], data[2]>> of the TESTFX3 reply
FirmwareBytes == {<<1, 2>>}
\* arguments of sddc_set_rf_mode (0 = NO_RF_MODE takes the default: branch)
RfModeInputs == {NO_RF_MODE, HF_MODE, VHF_MODE}
\* arguments of sddc_set_hf_attenuation, tenths of a dB: 0, 20.5, 32
AttenuationInputs == {0, 205, 320}
\* arguments of sddc_set_hf_vga_gain
VgaGainInputs == {19, 128}
\* arguments of sddc_set_sample_rate, Hz
SampleRateInputs == {1500000}
\* arguments of sddc_set_tuner_frequency, Hz
TunerFrequencyInputs == {100000000}
\* arguments of sddc_set_frequency_correction, ppm
PpmInputs == {DEFAULT_FREQ_CORR_PPM, -3}

\* the GPIO lines when the handle is opened: all low, or the 0 dB HF path
InitialGpio == {{}, {GPIO_ATT_SEL1}}

FailInputs == 0..MaxFail
\* the fail inputs of a handler that makes at most n collaborator calls
FailUpTo(n) == {f \in FailInputs : f <= n}
SessionIds == 1..MaxSessions

(* ------------------------ numeric helpers ----------------------------- *)

\* (int) of a double given in tenths: truncation toward zero
TruncTenths(x) == IF x >= 0 THEN x \div 10 ELSE -((-x) \div 10)

\* (uint32_t) (clock + 1e-6 * ppm * clock) for a positive sum below 2^31:
\* the conversion drops the fraction
CorrectedWord(clock, ppm) == clock + ((ppm * clock) \div 1000000)

RECURSIVE BitsValue(_)
\* a GPIO bit set as the uint16_t the code passes
BitsValue(S) ==
  IF S = {} THEN 0
  ELSE LET b == CHOOSE x \in S : TRUE IN b + BitsValue(S \ {b})

\* the bits that are set in the uint16_t v
BitsOf(v) == {2 ^ k : k \in {j \in 0..15 : (v \div (2 ^ j)) % 2 = 1}}

(* ------------------- the call context ---------------------------------- *)
(* A handler maps a context to a context: the handle, the device and the   *)
(* sessions as the call found them, the collaborator calls made so far     *)
(* (trace), r = the value the last C call returned, and the call's inputs  *)
(* fail (position in the trace of the collaborator call that fails, 0 =    *)
(* none) and ub (what a call on a dead or null session reports).           *)

Step(cmd, a, b, ok, dead) == [cmd |-> cmd, a |-> a, b |-> b, ok |-> ok, dead |-> dead]

Fails(c) == Len(c.trace) + 1 = c.fail

Ret(c, v) == [c EXCEPT !.r = v]

(* ------------------- USB transport collaborator ------------------------ *)

\* a control transfer: request and payload; < 0 on failure
usb_device_control(c, request, data) ==
  LET ok == ~Fails(c)
  IN [c EXCEPT !.trace = Append(@, Step(request, data, 0, ok, FALSE)),
               !.r = IF ok THEN 0 ELSE -1]

\* the bits of mask take the value they have in bits
usb_device_gpio_set(c, bits, mask) ==
  LET ok == ~Fails(c)
  IN [c EXCEPT !.trace = Append(@, Step("GPIO_SET", BitsValue(bits), BitsValue(mask), ok, FALSE)),
               !.gpio = IF ok THEN (@ \ mask) \cup (bits \cap mask) ELSE @,
               !.r = IF ok THEN 0 ELSE -1]

usb_device_gpio_on(c, bits) ==
  LET ok == ~Fails(c)
  IN [c EXCEPT !.trace = Append(@, Step("GPIO_ON", BitsValue(bits), 0, ok, FALSE)),
               !.gpio = IF ok THEN @ \cup bits ELSE @,
               !.r = IF ok THEN 0 ELSE -1]

usb_device_gpio_off(c, bits) ==
  LET ok == ~Fails(c)
  IN [c EXCEPT !.trace = Append(@, Step("GPIO_OFF", BitsValue(bits), 0, ok, FALSE)),
               !.gpio = IF ok THEN @ \ bits ELSE @,
               !.r = IF ok THEN 0 ELSE -1]

usb_device_gpio_toggle(c, bits) ==
  LET ok == ~Fails(c)
  IN [c EXCEPT !.trace = Append(@, Step("GPIO_TOGGLE", BitsValue(bits), 0, ok, FALSE)),
               !.gpio = IF ok THEN (@ \ bits) \cup (bits \ @) ELSE @,
               !.r = IF ok THEN 0 ELSE -1]

usb_device_set_fw_register(c, reg, value) ==
  LET ok == ~Fails(c)
  IN [c EXCEPT !.trace = Append(@, Step("SET_FW_REGISTER", reg, value, ok, FALSE)),
               !.r = IF ok THEN 0 ELSE -1]

\* void: releases the connection
usb_device_close(c) ==
  [c EXCEPT !.trace = Append(@, Step("usb_device_close", 0, 0, TRUE, FALSE)),
            !.usb = "closed"]

(* ------------------- streaming collaborator ---------------------------- *)
(* A session is "free" (never handed out), "open", "started", "stopped" or *)
(* "closed" (released).  A pointer is a session id, 0 is the null pointer. *)
(* A call on a closed or null session is undefined: the step is marked     *)
(* dead, changes nothing and reports what the input ub says.               *)

Live(c, s) == s \in SessionIds /\ c.sess[s] \in {"open", "started", "stopped"}

\* r = the new session, or 0 when the collaborator fails
streaming_open_async(c) ==
  LET free == {s \in SessionIds : c.sess[s] = "free"}
      ok == ~Fails(c) /\ free # {}
      new == IF ok THEN CHOOSE s \in free : \A t \in free : s <= t ELSE 0
  IN [c EXCEPT !.trace = Append(@, Step("streaming_open_async", new, 0, ok, FALSE)),
               !.sess = IF ok THEN [@ EXCEPT ![new] = "open"] ELSE @,
               !.r = new]

streaming_set_sample_rate(c, s, rate) ==
  [c EXCEPT !.trace = Append(@, Step("streaming_set_sample_rate", s, rate, TRUE, ~Live(c, s)))]

SessionCall(c, s, cmd, to) ==
  LET live == Live(c, s)
      ok == IF live THEN ~Fails(c) ELSE c.ub
  IN [c EXCEPT !.trace = Append(@, Step(cmd, s, 0, ok, ~live)),
               !.sess = IF live /\ ok THEN [@ EXCEPT ![s] = to] ELSE @,
               !.r = IF ok THEN 0 ELSE -1]

streaming_start(c, s) == SessionCall(c, s, "streaming_start", "started")

streaming_stop(c, s) == SessionCall(c, s, "streaming_stop", "stopped")

\* void: releases the session
streaming_close(c, s) ==
  LET live == Live(c, s)
  IN [c EXCEPT !.trace = Append(@, Step("streaming_close", s, 0, TRUE, ~live)),
               !.sess = IF live THEN [@ EXCEPT ![s] = "closed"] ELSE @]

streaming_reset_status(c, s) ==
  SessionCall(c, s, "streaming_reset_status", IF Live(c, s) THEN c.sess[s] ELSE "closed")

streaming_read_sync(c, s) ==
  SessionCall(c, s, "streaming_read_sync", IF Live(c, s) THEN c.sess[s] ELSE "closed")

(* ------------------- sddc_open ----------------------------------------- *)

\* the switch with HW_RX888 under the case of HW_RX888R2
CapabilityProfile_Rx888AsR2(model) ==
  CASE model = HW_BBRF103 ->
         [has_clock_source |-> TRUE, has_vhf_tuner |-> TRUE,
          hf_attenuator_levels |-> 3, hf_vga_levels |-> 0,
          frequency_range |-> <<10000, 1750000000>>]
    [] model \in {HW_RX888, HW_RX888R2} ->
         [has_clock_source |-> TRUE, has_vhf_tuner |-> TRUE,
          hf_attenuator_levels |-> 64, hf_vga_levels |-> 127,
          frequency_range |-> <<10000, 1750000000>>]
    [] model = HW_HF103 ->
         [has_clock_source |-> FALSE, has_vhf_tuner |-> FALSE,
          hf_attenuator_levels |-> 32, hf_vga_levels |-> 0,
          frequency_range |-> <<0, 32000000>>]
    [] OTHER ->
         [has_clock_source |-> FALSE, has_vhf_tuner |-> FALSE,
          hf_attenuator_levels |-> 0, hf_vga_levels |-> 0,
          frequency_range |-> <<0, 0>>]

\* the switch on this->model
CapabilityProfile(model) ==
  CASE model \in {HW_BBRF103, HW_RX888} ->
         [has_clock_source |-> TRUE, has_vhf_tuner |-> TRUE,
          hf_attenuator_levels |-> 3, hf_vga_levels |-> 0,
          frequency_range |-> <<10000, 1750000000>>]
    [] model = HW_RX888R2 ->
         [has_clock_source |-> TRUE, has_vhf_tuner |-> TRUE,
          hf_attenuator_levels |-> 64, hf_vga_levels |-> 127,
          frequency_range |-> <<10000, 1750000000>>]
    [] model = HW_HF103 ->
         [has_clock_source |-> FALSE, has_vhf_tuner |-> FALSE,
          hf_attenuator_levels |-> 32, hf_vga_levels |-> 0,
          frequency_range |-> <<0, 32000000>>]
    [] OTHER ->
         [has_clock_source |-> FALSE, has_vhf_tuner |-> FALSE,
          hf_attenuator_levels |-> 0, hf_vga_levels |-> 0,
          frequency_range |-> <<0, 0>>]

\* the handle sddc_open returns for the TESTFX3 reply data
sddc_open(data) ==
  LET p == CapabilityProfile(data[1])
  IN [status |-> SDDC_STATUS_READY,
      model |-> data[1],
      firmware |-> data[2] * 256 + data[3],
      rf_mode |-> HF_MODE,
      streaming |-> 0,
      has_clock_source |-> p.has_clock_source,
      has_vhf_tuner |-> p.has_vhf_tuner,
      hf_attenuator_levels |-> p.hf_attenuator_levels,
      hf_vga_levels |-> p.hf_vga_levels,
      frequency_range |-> p.frequency_range,
      sample_rate |-> DEFAULT_SAMPLE_RATE,
      hf_attenuation |-> DEFAULT_HF_ATTENUATION,
      hf_vga_gain |-> DEFAULT_HF_VGA_GAIN,
      tuner_frequency |-> DEFAULT_TUNER_FREQUENCY,
      tuner_attenuation |-> DEFAULT_TUNER_ATTENUATION,
      tuner_clock |-> 0,
      freq_corr_ppm |-> DEFAULT_FREQ_CORR_PPM]

(* ------------------- LED functions -------------------------------------- *)

\* led_pattern & ~(LED_YELLOW | LED_RED | LED_BLUE)
InvalidLedPattern(led_pattern) ==
  BitsOf(led_pattern) \ {LED_YELLOW, LED_RED, LED_BLUE} # {}

\* (uint16_t) led_pattern << GPIO_LED_SHIFT, as the set of its bits
LedGpioBits(led_pattern) ==
  BitsOf((led_pattern * (2 ^ GPIO_LED_SHIFT)) % 65536)

sddc_led_on(c, led_pattern) ==
  IF InvalidLedPattern(led_pattern) THEN Ret(c, -1)
  ELSE usb_device_gpio_on(c, LedGpioBits(led_pattern))

sddc_led_off(c, led_pattern) ==
  IF InvalidLedPattern(led_pattern) THEN Ret(c, -1)
  ELSE usb_device_gpio_off(c, LedGpioBits(led_pattern))

\* sddc_led_toggle without the check of the pattern
sddc_led_toggle_Unchecked(c, led_pattern) ==
  usb_device_gpio_toggle(c, LedGpioBits(led_pattern))

sddc_led_toggle(c, led_pattern) ==
  IF InvalidLedPattern(led_pattern) THEN Ret(c, -1)
  ELSE usb_device_gpio_toggle(c, LedGpioBits(led_pattern))

(* ------------------- HF block ------------------------------------------ *)

\* return this->hf_attenuation (h is the handle)
sddc_get_hf_attenuation(h) == h.hf_attenuation

\* the 3-level branch: switch ((int) attenuation), persist, write the GPIOs
HfAttenuation3(c, attenuation) ==
  LET sw == TruncTenths(attenuation)
      bit_pattern == CASE sw = 0 -> {GPIO_ATT_SEL1}
                       [] sw = 10 -> {GPIO_ATT_SEL0, GPIO_ATT_SEL1}
                       [] sw = 20 -> {GPIO_ATT_SEL0}
                       [] OTHER -> {}
  IN IF sw \notin {0, 10, 20} THEN Ret(c, -1)
     ELSE usb_device_gpio_set([c EXCEPT !.this.hf_attenuation = attenuation],
                              bit_pattern, {GPIO_ATT_SEL0, GPIO_ATT_SEL1})

\* the 32-level branch with the upper limit one step too high
HfAttenuation32_UpToLevels(c, attenuation) ==
  IF attenuation < 0 \/ attenuation > c.this.hf_attenuator_levels * 10
  THEN Ret(c, -1)
  ELSE usb_device_set_fw_register([c EXCEPT !.this.hf_attenuation = attenuation],
                                  FW_REG_DAT31_ATT, TruncTenths(attenuation))

\* the 32-level branch: dat31_att = (int) attenuation
HfAttenuation32(c, attenuation) ==
  IF attenuation < 0 \/ attenuation > (c.this.hf_attenuator_levels - 1) * 10
  THEN Ret(c, -1)
  ELSE usb_device_set_fw_register([c EXCEPT !.this.hf_attenuation = attenuation],
                                  FW_REG_DAT31_ATT, TruncTenths(attenuation))

\* the 64-level branch: uint16_t pe4312_att = attenuation * 2
HfAttenuation64(c, attenuation) ==
  IF attenuation < 0 \/ attenuation > 315
  THEN Ret(c, -1)
  ELSE usb_device_set_fw_register([c EXCEPT !.this.hf_attenuation = attenuation],
                                  FW_REG_DAT31_ATT, TruncTenths(attenuation * 2))

\* the setter with a shortcut: a value equal to the stored one is not
\* written again
sddc_set_hf_attenuation_SkipsUnchanged(c, attenuation) ==
  CASE c.this.hf_attenuator_levels = 0 -> Ret(c, 0)
    [] attenuation = c.this.hf_attenuation -> Ret(c, 0)
    [] c.this.hf_attenuator_levels = 3 -> HfAttenuation3(c, attenuation)
    [] c.this.hf_attenuator_levels = 32 -> HfAttenuation32(c, attenuation)
    [] c.this.hf_attenuator_levels = 64 -> HfAttenuation64(c, attenuation)
    [] OTHER -> Ret(c, -1)

sddc_set_hf_attenuation(c, attenuation) ==
  CASE c.this.hf_attenuator_levels = 0 -> Ret(c, 0)
    [] c.this.hf_attenuator_levels = 3 -> HfAttenuation3(c, attenuation)
    [] c.this.hf_attenuator_levels = 32 -> HfAttenuation32(c, attenuation)
    [] c.this.hf_attenuator_levels = 64 -> HfAttenuation64(c, attenuation)
    [] OTHER -> Ret(c, -1)

\* the gain code with the sweet point itself in high mode
GainCode_SweetPointHigh(idx) ==
  IF idx >= AD8370_GAIN_SWEET_POINT
  THEN (AD8370_HIGH_MODE + (idx - AD8370_GAIN_SWEET_POINT + 3)) % 256
  ELSE (AD8370_LOW_MODE + (idx + 1)) % 256

\* uint8_t gain_code of the AD8370; for idx in 0..127 the right operand of
\* each | is below 0x80, so the | adds
GainCode(idx) ==
  IF idx > AD8370_GAIN_SWEET_POINT
  THEN (AD8370_HIGH_MODE + (idx - AD8370_GAIN_SWEET_POINT + 3)) % 256
  ELSE (AD8370_LOW_MODE + (idx + 1)) % 256

sddc_set_hf_vga_gain(c, idx) ==
  CASE c.this.hf_vga_levels = 0 -> Ret(c, 0)
    [] c.this.hf_vga_levels = 127 ->
         IF idx < 0 \/ idx > 127 THEN Ret(c, -1)
         ELSE usb_device_set_fw_register([c EXCEPT !.this.hf_vga_gain = idx],
                                         FW_REG_AD8370_VGA, GainCode(idx))
    [] OTHER -> Ret(c, -1)

(* ------------------- tuner attenuation ---------------------------------- *)

\* tenths of a dB; tuner_rf_attenuations_table[i] is element i + 1
tuner_rf_attenuations_table ==
  <<0, 9, 14, 27, 37, 77, 87, 125, 144, 157, 166, 197, 207,
    229, 254, 280, 297, 328, 338, 364, 372, 386, 402, 421, 434,
    439, 445, 480, 496>>

tuner_if_attenuations_table ==
  <<-47, -21, 5, 35, 77, 112, 136, 149, 163, 195, 231, 265,
    300, 337, 372, 408>>

fabs(x) == IF x < 0 THEN -x ELSE x

RECURSIVE NearestLoop_LastMinimum(_, _, _, _, _)
\* the loop with att <= idx_att: the last minimum wins
NearestLoop_LastMinimum(table, attenuation, i, idx, idx_att) ==
  IF i >= Len(table) THEN idx
  ELSE LET att == fabs(attenuation - table[i + 1])
       IN IF att <= idx_att
          THEN NearestLoop_LastMinimum(table, attenuation, i + 1, i, att)
          ELSE NearestLoop_LastMinimum(table, attenuation, i + 1, idx, idx_att)

RECURSIVE NearestLoop(_, _, _, _, _)
\* for (int i = 1; i < table_size; ++i): the value of idx after the loop,
\* entered at i with the running idx and idx_att
NearestLoop(table, attenuation, i, idx, idx_att) ==
  IF i >= Len(table) THEN idx
  ELSE LET att == fabs(attenuation - table[i + 1])
       IN IF att < idx_att
          THEN NearestLoop(table, attenuation, i + 1, i, att)
          ELSE NearestLoop(table, attenuation, i + 1, idx, idx_att)

\* uint16_t idx = 0; idx_att = fabs(attenuation - table[idx]); the loop
NearestIndex(table, attenuation) ==
  NearestLoop(table, attenuation, 1, 0, fabs(attenuation - table[1]))

sddc_set_tuner_rf_attenuation(c, attenuation) ==
  LET idx == NearestIndex(tuner_rf_attenuations_table, attenuation)
      c1 == usb_device_set_fw_register(c, FW_REG_R82XX_ATTENUATOR, idx)
  IN IF c1.r < 0 THEN Ret(c1, -1) ELSE Ret(c1, 0)

sddc_set_tuner_if_attenuation(c, attenuation) ==
  LET idx == NearestIndex(tuner_if_attenuations_table, attenuation)
      c1 == usb_device_set_fw_register(c, FW_REG_R82XX_VGA, idx)
  IN IF c1.r < 0 THEN Ret(c1, -1) ELSE Ret(c1, 0)

(* ------------------- RF mode ------------------------------------------- *)

\* helper method to configure GPIOs for VHF
sddc_set_vhf_gpios(c) ==
  usb_device_gpio_set(c, {}, {GPIO_ATT_SEL0, GPIO_ATT_SEL1})

\* case HF_MODE re-applying the default attenuation, not the stored one
RfModeHF_DefaultAttenuation(c) ==
  LET c1 == [c EXCEPT !.this.rf_mode = HF_MODE]
      c2 == usb_device_control(c1, "R82XXSTDBY", 0)
      c3 == sddc_set_hf_attenuation(c2, DEFAULT_HF_ATTENUATION)
      c4 == sddc_set_hf_vga_gain(c3, c3.this.hf_vga_gain)
  IN IF c2.r < 0 THEN Ret(c2, -1)
     ELSE IF c3.r < 0 THEN Ret(c3, -1)
     ELSE IF c3.this.hf_vga_levels > 0
          THEN (IF c4.r < 0 THEN Ret(c4, -1) ELSE Ret(c4, 0))
          ELSE Ret(c3, 0)

\* case HF_MODE
RfModeHF(c) ==
  LET c1 == [c EXCEPT !.this.rf_mode = HF_MODE]
      c2 == usb_device_control(c1, "R82XXSTDBY", 0)
      c3 == sddc_set_hf_attenuation(c2, c2.this.hf_attenuation)
      c4 == sddc_set_hf_vga_gain(c3, c3.this.hf_vga_gain)
  IN IF c2.r < 0 THEN Ret(c2, -1)
     ELSE IF c3.r < 0 THEN Ret(c3, -1)
     ELSE IF c3.this.hf_vga_levels > 0
          THEN (IF c4.r < 0 THEN Ret(c4, -1) ELSE Ret(c4, 0))
          ELSE Ret(c3, 0)

\* mutant: VHF is entered without looking at has_vhf_tuner
RfModeVHF_NoTunerCheck(c) ==
  LET c1 == [c EXCEPT !.this.rf_mode = VHF_MODE]
      c2 == sddc_set_vhf_gpios(c1)
      data == CorrectedWord(c2.this.tuner_clock, c2.this.freq_corr_ppm)
      c3 == usb_device_control(c2, "R82XXINIT", data)
  IN IF c2.r < 0 THEN Ret(c2, -1)
     ELSE IF c3.r < 0 THEN Ret(c3, -1)
     ELSE Ret(c3, 0)

\* case VHF_MODE
RfModeVHF(c) ==
  LET c1 == [c EXCEPT !.this.rf_mode = VHF_MODE]
      c2 == sddc_set_vhf_gpios(c1)
      data == CorrectedWord(c2.this.tuner_clock, c2.this.freq_corr_ppm)
      c3 == usb_device_control(c2, "R82XXINIT", data)
  IN IF ~c.this.has_vhf_tuner THEN Ret(c, -1)
     ELSE IF c2.r < 0 THEN Ret(c2, -1)
     ELSE IF c3.r < 0 THEN Ret(c3, -1)
     ELSE Ret(c3, 0)

sddc_set_rf_mode(c, rf_mode) ==
  CASE rf_mode = HF_MODE -> RfModeHF(c)
    [] rf_mode = VHF_MODE -> RfModeVHF(c)
    [] OTHER -> Ret(c, -1)

(* ------------------- tuner ---------------------------------------------- *)

\* the setter storing the frequency as the lower end of frequency_range
sddc_set_tuner_frequency_IntoRange(c, frequency) ==
  LET c1 == usb_device_control(c, "R82XXTUNE", frequency)
  IN IF c1.r < 0 THEN Ret(c1, -1)
     ELSE Ret([c1 EXCEPT !.this.frequency_range = <<frequency, @[2]>>], 0)

sddc_set_tuner_frequency(c, frequency) ==
  LET c1 == usb_device_control(c, "R82XXTUNE", frequency)
  IN IF c1.r < 0 THEN Ret(c1, -1)
     ELSE Ret([c1 EXCEPT !.this.tuner_frequency = frequency], 0)

(* ------------------- streaming ------------------------------------------ *)
(* sddc_start_streaming and sddc_stop_streaming are chains of blocks; a    *)
(* block that returns sets done, and the blocks after it do nothing.       *)

Return(c, v) == [c EXCEPT !.r = v, !.done = TRUE]

sddc_set_sample_rate(c, sample_rate) ==
  Ret([c EXCEPT !.this.sample_rate = sample_rate], 0)

sddc_set_async_params(c) ==
  IF c.this.streaming # 0 THEN Ret(c, -1)
  ELSE LET c1 == streaming_open_async(c)
           c2 == [c1 EXCEPT !.this.streaming = c1.r]
       IN IF c2.this.streaming = 0 THEN Ret(c2, -1) ELSE Ret(c2, 0)

\* mutant: the status check of sddc_start_streaming left out
StartCheckStatus_Missing(c) == c

\* if (this->status != SDDC_STATUS_READY) return -1
StartCheckStatus(c) ==
  IF c.this.status # SDDC_STATUS_READY THEN Return(c, -1) ELSE c

\* ADC sampling frequency
StartAdc(c) ==
  IF c.done THEN c
  ELSE LET data == CorrectedWord(c.this.sample_rate, c.this.freq_corr_ppm)
           c1 == usb_device_control(c, "STARTADC", data)
       IN IF c1.r < 0 THEN Return(c1, -1) ELSE c1

\* initialize tuner
StartTuner(c) ==
  IF c.done \/ c.this.rf_mode # VHF_MODE THEN c
  ELSE LET data == CorrectedWord(TUNER_CLOCK, c.this.freq_corr_ppm)
           c1 == usb_device_control(c, "R82XXINIT", data)
       IN IF c1.r < 0 THEN Return(c1, -1) ELSE c1

\* start async streaming
StartAsync(c) ==
  IF c.done \/ c.this.streaming = 0 THEN c
  ELSE LET c1 == streaming_set_sample_rate(c, c.this.streaming, c.this.sample_rate)
           c2 == streaming_start(c1, c1.this.streaming)
       IN IF c2.r < 0 THEN Return(c2, -1) ELSE c2

\* mutant: the result of STARTFX3 is not looked at
StartProducer_Unchecked(c) ==
  IF c.done THEN c ELSE usb_device_control(c, "STARTFX3", 0)

\* start the producer
StartProducer(c) ==
  IF c.done THEN c
  ELSE LET c1 == usb_device_control(c, "STARTFX3", 0)
       IN IF c1.r < 0 THEN Return(c1, -1) ELSE c1

\* all good
StartAllGood(c) ==
  IF c.done THEN c
  ELSE Return([c EXCEPT !.this.status = SDDC_STATUS_STREAMING], 0)

\* mutant: the producer is started before the streaming session
sddc_start_streaming_ProducerFirst(c) ==
  StartAllGood(StartAsync(StartProducer(StartTuner(StartAdc(StartCheckStatus(c))))))

sddc_start_streaming(c) ==
  StartAllGood(StartProducer(StartAsync(StartTuner(StartAdc(StartCheckStatus(c))))))

\* if (this->status != SDDC_STATUS_STREAMING) return -1
StopCheckStatus(c) ==
  IF c.this.status # SDDC_STATUS_STREAMING THEN Return(c, -1) ELSE c

\* stop the producer
StopProducer(c) ==
  IF c.done THEN c
  ELSE LET c1 == usb_device_control(c, "STOPFX3", 0)
       IN IF c1.r < 0 THEN Return(c1, -1) ELSE c1

\* stop async streaming; the pointer this->streaming is left as it is
StopAsync(c) ==
  IF c.done \/ c.this.streaming = 0 THEN c
  ELSE LET c1 == streaming_stop(c, c.this.streaming)
       IN IF c1.r < 0 THEN Return(c1, -1)
          ELSE streaming_close(c1, c1.this.streaming)

\* stop tuner
StopTuner(c) ==
  IF c.done \/ c.this.rf_mode # VHF_MODE THEN c
  ELSE LET c1 == usb_device_control(c, "R82XXSTDBY", 0)
       IN IF c1.r < 0 THEN Return(c1, -1) ELSE c1

\* mutant: the result of the ADC shutdown write is not looked at
StopAdc_Unchecked(c) ==
  IF c.done THEN c ELSE usb_device_gpio_on(c, {GPIO_ADC_SHDN})

\* stop ADC
StopAdc(c) ==
  IF c.done THEN c
  ELSE LET c1 == usb_device_gpio_on(c, {GPIO_ADC_SHDN})
       IN IF c1.r < 0 THEN Return(c1, -1) ELSE c1

\* mutant: a successful stop leaves the status as it was
StopAllGood_NoStatus(c) ==
  IF c.done THEN c ELSE Return(c, 0)

\* all good
StopAllGood(c) ==
  IF c.done THEN c
  ELSE Return([c EXCEPT !.this.status = SDDC_STATUS_READY], 0)

sddc_stop_streaming(c) ==
  StopAllGood(StopAdc(StopTuner(StopAsync(StopProducer(StopCheckStatus(c))))))

sddc_reset_status(c) ==
  LET c1 == streaming_reset_status(c, c.this.streaming)
  IN IF c1.r < 0 THEN Ret(c1, -1) ELSE Ret(c1, 0)

sddc_read_sync(c) == streaming_read_sync(c, c.this.streaming)

(* ------------------- misc ----------------------------------------------- *)

\* mutant: the correction is stored whatever the status
sddc_set_frequency_correction_Unguarded(c, correction) ==
  Ret([c EXCEPT !.this.freq_corr_ppm = correction], 0)

sddc_set_frequency_correction(c, correction) ==
  IF c.this.status = SDDC_STATUS_STREAMING THEN Ret(c, -1)
  ELSE Ret([c EXCEPT !.this.freq_corr_ppm = correction], 0)

(* ------------------- sddc_close ----------------------------------------- *)

\* usb_device_close(this->usb_device); free(this): the memory of the handle
\* is given back, nothing else is released
sddc_close(c) == usb_device_close(c)

(* ------------------- the state machine ---------------------------------- *)

\* what a call on a dead or null session may report; a call that meets a
\* live session draws nothing
UbInputs == IF this.streaming \in SessionIds /\ sess[this.streaming] \in {"open", "started", "stopped"}
            THEN {FALSE} ELSE BOOLEAN

\* the context a call starts in
Ctx(f, u) ==
  [this |-> this, gpio |-> gpio, sess |-> sess, usb |-> usb, trace |-> <<>>,
   r |-> 0, done |-> FALSE, fail |-> f, ub |-> u]

\* a call is made on a handle that was not closed; when it returns, its
\* effects become the state and the observer records it
Commit(op, arg, c) ==
  /\ usb = "open"
  /\ usb' = c.usb
  /\ this' = c.this
  /\ gpio' = c.gpio
  /\ sess' = c.sess
  /\ last' = [op |-> op, arg |-> arg, ret |-> c.r, trace |-> c.trace, pre |-> this]

\* a handle as a successful sddc_open leaves it; sddc_open writes no GPIO,
\* so the lines are as the firmware left them
Init ==
  \E id \in HwModelIds, fw \in FirmwareBytes, g \in InitialGpio :
    /\ this = sddc_open(<<id, fw[1], fw[2], 0>>)
    /\ gpio = g
    /\ sess = [s \in SessionIds |-> "free"]
    /\ usb = "open"
    /\ last = [op |-> "sddc_open", arg |-> id, ret |-> 0,
               trace |-> <<Step("TESTFX3", 0, 0, TRUE, FALSE)>>,
               pre |-> sddc_open(<<id, fw[1], fw[2], 0>>)]

SetRfMode ==
  \E m \in RfModeInputs, f \in FailUpTo(3) :
    Commit("sddc_set_rf_mode", m, sddc_set_rf_mode(Ctx(f, FALSE), m))

SetHfAttenuation ==
  \E a \in AttenuationInputs, f \in FailUpTo(1) :
    Commit("sddc_set_hf_attenuation", a, sddc_set_hf_attenuation(Ctx(f, FALSE), a))

SetHfVgaGain ==
  \E i \in VgaGainInputs, f \in FailUpTo(1) :
    Commit("sddc_set_hf_vga_gain", i, sddc_set_hf_vga_gain(Ctx(f, FALSE), i))

SetTunerFrequency ==
  \E x \in TunerFrequencyInputs, f \in FailUpTo(1) :
    Commit("sddc_set_tuner_frequency", x, sddc_set_tuner_frequency(Ctx(f, FALSE), x))

SetSampleRate ==
  \E x \in SampleRateInputs :
    Commit("sddc_set_sample_rate", x, sddc_set_sample_rate(Ctx(0, FALSE), x))

SetAsyncParams ==
  \E f \in FailUpTo(1) :
    Commit("sddc_set_async_params", 0, sddc_set_async_params(Ctx(f, FALSE)))

StartStreaming ==
  \E f \in FailInputs, u \in UbInputs :
    Commit("sddc_start_streaming", 0, sddc_start_streaming(Ctx(f, u)))

StopStreaming ==
  \E f \in FailInputs, u \in UbInputs :
    Commit("sddc_stop_streaming", 0, sddc_stop_streaming(Ctx(f, u)))

ResetStatus ==
  \E f \in FailUpTo(1), u \in UbInputs :
    Commit("sddc_reset_status", 0, sddc_reset_status(Ctx(f, u)))

ReadSync ==
  \E f \in FailUpTo(1), u \in UbInputs :
    Commit("sddc_read_sync", 0, sddc_read_sync(Ctx(f, u)))

SetFrequencyCorrection ==
  \E x \in PpmInputs :
    Commit("sddc_set_frequency_correction", x, sddc_set_frequency_correction(Ctx(0, FALSE), x))

Close ==
  Commit("sddc_close", 0, sddc_close(Ctx(0, FALSE)))

Next ==
  \/ SetRfMode
  \/ SetHfAttenuation
  \/ SetHfVgaGain
  \/ SetTunerFrequency
  \/ SetSampleRate
  \/ SetAsyncParams
  \/ StartStreaming
  \/ StopStreaming
  \/ ResetStatus
  \/ ReadSync
  \/ SetFrequencyCorrection
  \/ Close

Spec == Init /\ [][Next]_vars

(* ------------------- the HF block over wider inputs --------------------- *)
(* The same handle and the same handlers, driven only through the gain and *)
(* attenuation setters, with the arguments at and around every boundary of *)
(* every class.                                                            *)

\* arguments of sddc_set_hf_attenuation, tenths of a dB: -1, -0.5, 0, 0.2,
\* 0.3, 0.5, 10, 10.9, 20, 20.9, 21, 30.5, 31, 31.1, 31.5, 31.6
HfAttenuationValues ==
  {-10, -5, 0, 2, 3, 5, 100, 109, 200, 209, 210, 305, 310, 311, 315, 316}

SetHfAttenuationValue ==
  \E a \in HfAttenuationValues, f \in FailUpTo(1) :
    Commit("sddc_set_hf_attenuation", a, sddc_set_hf_attenuation(Ctx(f, FALSE), a))

\* arguments of sddc_set_hf_vga_gain: the indices at both ends, around the
\* sweet point and in the middle, and one beyond each end
HfVgaGainValues == {-1, 0, 1, 17, 18, 19, 20, 64, 126, 127, 128}

SetHfVgaGainValue ==
  \E i \in HfVgaGainValues, f \in FailUpTo(1) :
    Commit("sddc_set_hf_vga_gain", i, sddc_set_hf_vga_gain(Ctx(f, FALSE), i))

HfNext ==
  \/ SetHfAttenuationValue
  \/ SetHfVgaGainValue

HfSpec == Init /\ [][HfNext]_vars

(* ------------------- the tuner attenuation setters ---------------------- *)

\* arguments of sddc_set_tuner_rf_attenuation, tenths of a dB: below the
\* table, its first entry, 3.2 (as far from 2.7 as from 3.7), 5, 25, its
\* last entry, above the table
TunerRfAttenuationValues == {-100, 0, 32, 50, 250, 496, 600}
\* arguments of sddc_set_tuner_if_attenuation: below the table, its first
\* entry, 2 (as far from 0.5 as from 3.5), 5, its last entry, above
TunerIfAttenuationValues == {-100, -47, 20, 50, 408, 600}

SetTunerRfAttenuation ==
  \E a \in TunerRfAttenuationValues, f \in FailUpTo(1) :
    Commit("sddc_set_tuner_rf_attenuation", a,
           sddc_set_tuner_rf_attenuation(Ctx(f, FALSE), a))

SetTunerIfAttenuation ==
  \E a \in TunerIfAttenuationValues, f \in FailUpTo(1) :
    Commit("sddc_set_tuner_if_attenuation", a,
           sddc_set_tuner_if_attenuation(Ctx(f, FALSE), a))

TunerNext ==
  \/ SetTunerRfAttenuation
  \/ SetTunerIfAttenuation

TunerSpec == Init /\ [][TunerNext]_vars

(* ------------------- the operations that validate their argument -------- *)

\* the uint8_t arguments of the LED functions: no LED, yellow, red and blue,
\* a bit next to the colours, a colour with that bit, every bit
LedPatternInputs == {0, LED_YELLOW, 6, 8, 9, 255}

LedOn ==
  \E p \in LedPatternInputs, f \in FailUpTo(1) :
    Commit("sddc_led_on", p, sddc_led_on(Ctx(f, FALSE), p))

LedOff ==
  \E p \in LedPatternInputs, f \in FailUpTo(1) :
    Commit("sddc_led_off", p, sddc_led_off(Ctx(f, FALSE), p))

LedToggle ==
  \E p \in LedPatternInputs, f \in FailUpTo(1) :
    Commit("sddc_led_toggle", p, sddc_led_toggle(Ctx(f, FALSE), p))

ValidationNext ==
  \/ SetRfMode
  \/ SetHfAttenuation
  \/ SetHfVgaGain
  \/ LedOn
  \/ LedOff
  \/ LedToggle

ValidationSpec == Init /\ [][ValidationNext]_vars

(* ======================= claims ========================================= *)
(* last.pre is the handle as the last call found it, this the handle as it *)
(* left it, last.trace the collaborator calls it made, in order.           *)

(* C1: sddc_start_streaming called with status other than READY, and       *)
(* sddc_stop_streaming called with status other than STREAMING, return -1, *)
(* make no collaborator call (no transport command, no session call) and   *)
(* leave every field of the handle as it was.                              *)
StartStopRejectedOutsideStatus ==
  /\ (last.op = "sddc_start_streaming" /\ last.pre.status # SDDC_STATUS_READY)
       => (last.ret = -1 /\ last.trace = <<>> /\ this = last.pre)
  /\ (last.op = "sddc_stop_streaming" /\ last.pre.status # SDDC_STATUS_STREAMING)
       => (last.ret = -1 /\ last.trace = <<>> /\ this = last.pre)

\* C1 witness: a start call made while the handle is streaming
StartCalledWhileStreaming ==
  /\ last.op = "sddc_start_streaming"
  /\ last.pre.status = SDDC_STATUS_STREAMING
  /\ last.ret = -1

(* C2: a handle is READY when opened; the status is READY or STREAMING;    *)
(* a call changes it only as a successful start (READY to STREAMING) or a  *)
(* successful stop (STREAMING to READY); every successful start ends       *)
(* STREAMING and every successful stop ends READY, so a start/stop pair    *)
(* gives the status back.                                                  *)
StatusChangesOnlyByStartStop ==
  /\ last.op = "sddc_open" => this.status = SDDC_STATUS_READY
  /\ this.status \in {SDDC_STATUS_READY, SDDC_STATUS_STREAMING}
  /\ this.status # last.pre.status =>
       \/ /\ last.op = "sddc_start_streaming" /\ last.ret = 0
          /\ last.pre.status = SDDC_STATUS_READY
          /\ this.status = SDDC_STATUS_STREAMING
       \/ /\ last.op = "sddc_stop_streaming" /\ last.ret = 0
          /\ last.pre.status = SDDC_STATUS_STREAMING
          /\ this.status = SDDC_STATUS_READY
  /\ (last.op = "sddc_start_streaming" /\ last.ret = 0) =>
       (last.pre.status = SDDC_STATUS_READY /\ this.status = SDDC_STATUS_STREAMING)
  /\ (last.op = "sddc_stop_streaming" /\ last.ret = 0) =>
       (last.pre.status = SDDC_STATUS_STREAMING /\ this.status = SDDC_STATUS_READY)

\* C2 witness: a successful stop, which only a streaming handle can make,
\* has brought the status back to READY
StoppedBackToReady ==
  /\ last.op = "sddc_stop_streaming"
  /\ last.ret = 0
  /\ last.pre.status = SDDC_STATUS_STREAMING
  /\ this.status = SDDC_STATUS_READY

(* C3: a start or stop call in which a collaborator call fails returns -1  *)
(* and leaves the status as it was (READY for start, STREAMING for stop);  *)
(* no start or stop call that returns -1 changes the status; the failing   *)
(* call is the last one made (nothing is issued to undo the earlier ones), *)
(* and what the earlier ones did stays: a session started stays started, a *)
(* session released stays released.                                        *)
StartStopFailureKeepsStatus ==
  LET t == last.trace
      failed == \E i \in 1..Len(t) : ~t[i].ok
      did(cmd) == \E i \in 1..Len(t) : t[i].cmd = cmd /\ t[i].ok /\ ~t[i].dead
  IN /\ (last.op = "sddc_start_streaming" /\ failed) =>
          /\ last.ret = -1
          /\ last.pre.status = SDDC_STATUS_READY /\ this.status = SDDC_STATUS_READY
          /\ ~t[Len(t)].ok /\ \A i \in 1..(Len(t) - 1) : t[i].ok
          /\ did("streaming_start") => sess[this.streaming] = "started"
     /\ (last.op = "sddc_stop_streaming" /\ failed) =>
          /\ last.ret = -1
          /\ last.pre.status = SDDC_STATUS_STREAMING /\ this.status = SDDC_STATUS_STREAMING
          /\ ~t[Len(t)].ok /\ \A i \in 1..(Len(t) - 1) : t[i].ok
          /\ did("streaming_close") => sess[this.streaming] = "closed"
     /\ (last.op \in {"sddc_start_streaming", "sddc_stop_streaming"} /\ last.ret = -1) =>
          this.status = last.pre.status

\* C3 witness: the producer start failed after the session had been started
StartFailedAtProducer ==
  /\ last.op = "sddc_start_streaming"
  /\ last.ret = -1
  /\ last.trace # <<>>
  /\ last.trace[Len(last.trace)].cmd = "STARTFX3"
  /\ ~last.trace[Len(last.trace)].ok
  /\ this.streaming # 0
  /\ sess[this.streaming] = "started"
  /\ this.status = SDDC_STATUS_READY

(* C4: a start call that passes the status check issues a prefix of the    *)
(* sequence STARTADC, R82XXINIT (only in VHF mode), the session's sample   *)
(* rate and start (only if the handle holds a session reference),          *)
(* STARTFX3: every call before the last one made succeeded, the call       *)
(* stops short only at a failing call, and it returns 0 exactly when the   *)
(* whole sequence was issued and succeeded.  STARTFX3 is therefore sent    *)
(* only after every earlier call of the same start succeeded.  (The        *)
(* reference counts as held whenever this->streaming is not null.)         *)
StartStepsInOrder ==
  LET t == last.trace
      h == last.pre
      expected == <<"STARTADC">>
                  \o (IF h.rf_mode = VHF_MODE THEN <<"R82XXINIT">> ELSE <<>>)
                  \o (IF h.streaming # 0
                      THEN <<"streaming_set_sample_rate", "streaming_start">>
                      ELSE <<>>)
                  \o <<"STARTFX3">>
  IN (last.op = "sddc_start_streaming" /\ h.status = SDDC_STATUS_READY) =>
       /\ Len(t) >= 1 /\ Len(t) <= Len(expected)
       /\ \A i \in 1..Len(t) : t[i].cmd = expected[i]
       /\ \A i \in 1..(Len(t) - 1) : t[i].ok
       /\ Len(t) < Len(expected) => ~t[Len(t)].ok
       /\ last.ret = 0 <=> (Len(t) = Len(expected) /\ t[Len(t)].ok)
       /\ \A i \in 1..Len(t) :
            t[i].cmd = "STARTFX3" => \A j \in 1..(i - 1) : t[j].ok

\* C4 witness: a successful start in VHF mode with a session: all five calls
StartedWithTunerAndSession ==
  /\ last.op = "sddc_start_streaming"
  /\ last.ret = 0
  /\ last.pre.rf_mode = VHF_MODE
  /\ last.pre.streaming # 0
  /\ Len(last.trace) = 5

(* C5: a stop call that passes the status check issues a prefix of the     *)
(* sequence STOPFX3, the session's stop and close (only if the handle      *)
(* holds a session reference), R82XXSTDBY (only in VHF mode), GPIO on of   *)
(* the ADC shutdown bit: every call before the last one made succeeded,    *)
(* the call stops short only at a failing call, and the status is READY    *)
(* afterwards exactly when the whole sequence was issued and its last      *)
(* call, the ADC shutdown, succeeded.                                      *)
StopStepsInOrder ==
  LET t == last.trace
      h == last.pre
      expected == <<"STOPFX3">>
                  \o (IF h.streaming # 0
                      THEN <<"streaming_stop", "streaming_close">>
                      ELSE <<>>)
                  \o (IF h.rf_mode = VHF_MODE THEN <<"R82XXSTDBY">> ELSE <<>>)
                  \o <<"GPIO_ON">>
  IN (last.op = "sddc_stop_streaming" /\ h.status = SDDC_STATUS_STREAMING) =>
       /\ Len(t) >= 1 /\ Len(t) <= Len(expected)
       /\ \A i \in 1..Len(t) : t[i].cmd = expected[i]
       /\ \A i \in 1..(Len(t) - 1) : t[i].ok
       /\ Len(t) < Len(expected) => ~t[Len(t)].ok
       /\ this.status = SDDC_STATUS_READY <=>
            /\ Len(t) = Len(expected)
            /\ t[Len(t)].cmd = "GPIO_ON" /\ t[Len(t)].a = GPIO_ADC_SHDN /\ t[Len(t)].ok
       /\ this.status = SDDC_STATUS_READY <=> last.ret = 0
       /\ this.status = SDDC_STATUS_READY => GPIO_ADC_SHDN \in gpio

\* C5 witness: a successful stop in VHF mode with a session: all five calls
StoppedWithTunerAndSession ==
  /\ last.op = "sddc_stop_streaming"
  /\ last.ret = 0
  /\ last.pre.rf_mode = VHF_MODE
  /\ last.pre.streaming # 0
  /\ Len(last.trace) = 5

(* C6: sddc_set_frequency_correction returns -1 and changes nothing when   *)
(* the handle is STREAMING, and otherwise returns 0 and stores exactly the *)
(* value given, changing no other field; no operation at all, called on a  *)
(* STREAMING handle, changes freq_corr_ppm.                                *)
FrequencyCorrectionFixedWhileStreaming ==
  /\ (last.op = "sddc_set_frequency_correction" /\ last.pre.status = SDDC_STATUS_STREAMING)
       => (last.ret = -1 /\ this = last.pre)
  /\ (last.op = "sddc_set_frequency_correction" /\ last.pre.status # SDDC_STATUS_STREAMING)
       => (last.ret = 0 /\ this = [last.pre EXCEPT !.freq_corr_ppm = last.arg])
  /\ last.pre.status = SDDC_STATUS_STREAMING
       => this.freq_corr_ppm = last.pre.freq_corr_ppm

\* C6 witness: a new correction refused on a streaming handle
CorrectionRefusedWhileStreaming ==
  /\ last.op = "sddc_set_frequency_correction"
  /\ last.pre.status = SDDC_STATUS_STREAMING
  /\ last.arg # last.pre.freq_corr_ppm
  /\ last.ret = -1

(* C7: sddc_set_rf_mode(VHF_MODE) on a handle without a VHF tuner returns  *)
(* -1, makes no collaborator call and leaves every field of the handle as  *)
(* it was; in every state rf_mode = VHF_MODE implies has_vhf_tuner.        *)
VhfModeNeedsTuner ==
  /\ (last.op = "sddc_set_rf_mode" /\ last.arg = VHF_MODE /\ ~last.pre.has_vhf_tuner)
       => (last.ret = -1 /\ last.trace = <<>> /\ this = last.pre)
  /\ this.rf_mode = VHF_MODE => this.has_vhf_tuner

\* C7 witness: VHF asked of a handle whose profile has no tuner
VhfRefusedWithoutTuner ==
  /\ last.op = "sddc_set_rf_mode"
  /\ last.arg = VHF_MODE
  /\ ~last.pre.has_vhf_tuner
  /\ last.ret = -1

(* C8: when a sddc_set_rf_mode(HF_MODE) or sddc_set_rf_mode(VHF_MODE) call *)
(* returns -1 because one of its collaborator calls failed, rf_mode has    *)
(* the value it had before the call.  The code assigns rf_mode first, so   *)
(* this fails.                                                             *)
RfModeCommittedAfterSubSteps ==
  LET t == last.trace
  IN (/\ last.op = "sddc_set_rf_mode"
      /\ last.arg \in {HF_MODE, VHF_MODE}
      /\ last.ret = -1
      /\ \E i \in 1..Len(t) : ~t[i].ok)
     => this.rf_mode = last.pre.rf_mode

(* C9: tuner_clock is 0 while the tuner is inactive (rf_mode not VHF) and  *)
(* is TUNER_CLOCK after a successful sddc_set_rf_mode(VHF_MODE); the       *)
(* R82XXINIT word of sddc_set_rf_mode(VHF_MODE) is the corrected 32 MHz    *)
(* clock, the word sddc_start_streaming sends for the same correction.     *)
(* The code never assigns tuner_clock after sddc_open, so this fails.      *)
TunerClockSetWhenTunerActive ==
  LET t == last.trace
  IN /\ this.rf_mode # VHF_MODE => this.tuner_clock = 0
     /\ (last.op = "sddc_set_rf_mode" /\ last.arg = VHF_MODE /\ last.ret = 0)
          => (this.rf_mode = VHF_MODE /\ this.tuner_clock = TUNER_CLOCK)
     /\ (last.op = "sddc_set_rf_mode" /\ last.arg = VHF_MODE) =>
          \A i \in 1..Len(t) :
            t[i].cmd = "R82XXINIT" =>
              t[i].a = CorrectedWord(TUNER_CLOCK, last.pre.freq_corr_ppm)
     /\ last.op = "sddc_start_streaming" =>
          \A i \in 1..Len(t) :
            t[i].cmd = "R82XXINIT" =>
              t[i].a = CorrectedWord(TUNER_CLOCK, last.pre.freq_corr_ppm)

(* C10: at most one session is live; sddc_set_async_params creates one     *)
(* only when the handle holds none and otherwise returns -1 and creates    *)
(* nothing; the session the handle holds is a live one, and after a        *)
(* successful stop the handle holds none (so that one can be configured    *)
(* again).  The code leaves this->streaming pointing at the released       *)
(* session, so this fails.                                                 *)
OneSessionAndNoneAfterStop ==
  /\ Cardinality({s \in SessionIds : sess[s] \in {"open", "started", "stopped"}}) <= 1
  /\ (last.op = "sddc_set_async_params" /\ last.pre.streaming # 0)
       => (last.ret = -1 /\ last.trace = <<>> /\ this = last.pre)
  /\ (last.op = "sddc_set_async_params" /\ last.ret = 0)
       => (last.pre.streaming = 0 /\ this.streaming # 0)
  /\ this.streaming # 0 => sess[this.streaming] \in {"open", "started", "stopped"}
  /\ (last.op = "sddc_stop_streaming" /\ last.ret = 0) => this.streaming = 0

(* C11: sddc_close releases the transport connection and the streaming     *)
(* session the handle holds: after sddc_close, whether the session was     *)
(* only configured, is streaming or was stopped, no session of the handle  *)
(* is left unreleased.                                                     *)
ClosedHandleHoldsNoLiveSession ==
  last.op = "sddc_close" =>
    /\ usb = "closed"
    /\ \A s \in SessionIds : sess[s] \notin {"open", "started", "stopped"}

(* C12: on a handle of the 3-level class sddc_set_hf_attenuation accepts   *)
(* exactly 0, 10 and 20 dB; every other value (0.5, 10.9, -0.5 among them) *)
(* returns -1, issues no GPIO write and leaves hf_attenuation as it was.   *)
ThreeLevelAcceptsOnly0_10_20 ==
  (last.op = "sddc_set_hf_attenuation" /\ last.pre.hf_attenuator_levels = 3) =>
    IF last.arg \in {0, 100, 200}
    THEN /\ Len(last.trace) = 1
         /\ last.trace[1].cmd = "GPIO_SET"
         /\ last.trace[1].ok => (last.ret = 0 /\ this.hf_attenuation = last.arg)
    ELSE /\ last.ret = -1
         /\ last.trace = <<>>
         /\ this.hf_attenuation = last.pre.hf_attenuation

(* C13: on a handle of the 64-level class sddc_set_hf_attenuation accepts  *)
(* every value in [0.0, 31.5] dB and rejects every value outside it; for   *)
(* an accepted value v the attenuator register is written with round(2 v)  *)
(* (0.3 dB writes 1, 0.2 dB writes 0), always within 0..63.                *)
SixtyFourLevelWritesRounded ==
  (last.op = "sddc_set_hf_attenuation" /\ last.pre.hf_attenuator_levels = 64) =>
    IF last.arg >= 0 /\ last.arg <= 315
    THEN /\ Len(last.trace) = 1
         /\ last.trace[1].cmd = "SET_FW_REGISTER"
         /\ last.trace[1].a = FW_REG_DAT31_ATT
         /\ last.trace[1].b = (2 * last.arg + 5) \div 10
         /\ last.trace[1].b \in 0..63
    ELSE last.ret = -1 /\ last.trace = <<>>

(* C14: on a handle of the 32-level class sddc_set_hf_attenuation accepts  *)
(* every value in [0, 31] dB and rejects every value outside it with no    *)
(* register write and the handle unchanged; for an accepted value v the    *)
(* attenuator register is written with v truncated to an integer, always   *)
(* within 0..31, and the value is stored when the write succeeds.          *)
ThirtyTwoLevelWritesTruncated ==
  (last.op = "sddc_set_hf_attenuation" /\ last.pre.hf_attenuator_levels = 32) =>
    IF last.arg >= 0 /\ last.arg <= 310
    THEN /\ Len(last.trace) = 1
         /\ last.trace[1].cmd = "SET_FW_REGISTER"
         /\ last.trace[1].a = FW_REG_DAT31_ATT
         /\ last.trace[1].b \in 0..31
         /\ 10 * last.trace[1].b <= last.arg
         /\ last.arg < 10 * (last.trace[1].b + 1)
         /\ last.trace[1].ok => (last.ret = 0 /\ this.hf_attenuation = last.arg)
    ELSE last.ret = -1 /\ last.trace = <<>> /\ this = last.pre

\* C14 witness: 30.5 dB accepted on a 32-level handle and written as 30
ThirtyTwoLevelWrote30 ==
  /\ last.op = "sddc_set_hf_attenuation"
  /\ last.pre.hf_attenuator_levels = 32
  /\ last.arg = 305
  /\ last.ret = 0
  /\ last.trace[1].b = 30

(* C15: on a handle of the 127-level VGA class sddc_set_hf_vga_gain        *)
(* accepts exactly the indices 0..127 (any other returns -1, no write,     *)
(* handle unchanged); the code written to the VGA register is              *)
(* 0x80 | (index - 18 + 3) for index > 18 and 0x00 | (index + 1) for       *)
(* index <= 18; it fits in 8 bits, its top bit is set exactly in high      *)
(* mode, and the 128 accepted indices have 128 distinct codes.             *)
VgaGainCodeEncodesIndex ==
  (last.op = "sddc_set_hf_vga_gain" /\ last.pre.hf_vga_levels = 127) =>
    IF last.arg \in 0..127
    THEN /\ Len(last.trace) = 1
         /\ last.trace[1].cmd = "SET_FW_REGISTER"
         /\ last.trace[1].a = FW_REG_AD8370_VGA
         /\ last.trace[1].b = IF last.arg > 18 THEN 128 + (last.arg - 18 + 3)
                                              ELSE last.arg + 1
         /\ last.trace[1].b \in 0..255
         /\ (last.trace[1].b >= 128) <=> (last.arg > 18)
         /\ Cardinality({GainCode(i) : i \in 0..127}) = 128
         /\ last.trace[1].ok => (last.ret = 0 /\ this.hf_vga_gain = last.arg)
    ELSE last.ret = -1 /\ last.trace = <<>> /\ this = last.pre

\* C15 witness: the first index of high mode, 19, written as 0x84
VgaIndex19WrittenHigh ==
  /\ last.op = "sddc_set_hf_vga_gain"
  /\ last.pre.hf_vga_levels = 127
  /\ last.arg = 19
  /\ last.ret = 0
  /\ last.trace[1].b = 132

(* C16: sddc_set_tuner_rf_attenuation and sddc_set_tuner_if_attenuation    *)
(* write to their register (0x01, 0x02) the index of the table entry (29   *)
(* RF entries, 16 IF entries) nearest to the requested value, the lowest   *)
(* such index when two entries are equally near; the index is inside the   *)
(* table for every request, below the first and above the last entry too,  *)
(* and 5.0 dB on the RF table gives index 4 (3.7 dB).                      *)
TunerAttenuationWritesNearestIndex ==
  /\ Len(tuner_rf_attenuations_table) = 29
  /\ Len(tuner_if_attenuations_table) = 16
  /\ last.op \in {"sddc_set_tuner_rf_attenuation", "sddc_set_tuner_if_attenuation"} =>
       LET rf == last.op = "sddc_set_tuner_rf_attenuation"
           table == IF rf THEN tuner_rf_attenuations_table
                          ELSE tuner_if_attenuations_table
           dist(i) == IF last.arg >= table[i + 1] THEN last.arg - table[i + 1]
                                                  ELSE table[i + 1] - last.arg
           idx == last.trace[1].b
       IN /\ Len(last.trace) = 1
          /\ last.trace[1].cmd = "SET_FW_REGISTER"
          /\ last.trace[1].a = IF rf THEN FW_REG_R82XX_ATTENUATOR ELSE FW_REG_R82XX_VGA
          /\ idx \in 0..(Len(table) - 1)
          /\ \A j \in 0..(Len(table) - 1) : dist(idx) <= dist(j)
          /\ \A j \in 0..(idx - 1) : dist(idx) < dist(j)
          /\ (rf /\ last.arg = 50) => (idx = 4 /\ table[idx + 1] = 37)
          /\ last.ret = IF last.trace[1].ok THEN 0 ELSE -1
          /\ this = last.pre

\* C16 witness: 3.2 dB requested on the RF table, as far from entry 3 (2.7)
\* as from entry 4 (3.7), written as index 3
TunerRfTieTakesLowerIndex ==
  /\ last.op = "sddc_set_tuner_rf_attenuation"
  /\ last.arg = 32
  /\ last.ret = 0
  /\ last.trace[1].b = 3

(* C17: round trip.  For every attenuator class (none, 3-, 32-, 64-level)  *)
(* and every VGA class (none, 127-level), after a setter call that returns *)
(* 0 for the value v the getter returns v: sddc_get_hf_attenuation for the *)
(* attenuation, the stored gain index (the library has no VGA getter) for  *)
(* the VGA.                                                                *)
SetThenGetReturnsValue ==
  /\ (last.op = "sddc_set_hf_attenuation" /\ last.ret = 0) =>
       sddc_get_hf_attenuation(this) = last.arg
  /\ (last.op = "sddc_set_hf_vga_gain" /\ last.ret = 0) =>
       this.hf_vga_gain = last.arg

(* C18: sddc_set_hf_attenuation is idempotent.  When a call that passed    *)
(* validation is followed at once by a call with the same value, the       *)
(* second call issues the same hardware write as the first (same command,  *)
(* same register or mask, same data) and leaves the handle exactly as the  *)
(* first left it; when both succeed the GPIO lines are the same too.       *)
SetHfAttenuationIdempotent ==
  [][ ( /\ last.op = "sddc_set_hf_attenuation"
        /\ last'.op = "sddc_set_hf_attenuation"
        /\ last'.arg = last.arg
        /\ (last.ret = 0 \/ last.trace # <<>>) )
      => ( /\ Len(last'.trace) = Len(last.trace)
           /\ \A i \in 1..Len(last.trace) :
                /\ last'.trace[i].cmd = last.trace[i].cmd
                /\ last'.trace[i].a = last.trace[i].a
                /\ last'.trace[i].b = last.trace[i].b
           /\ this' = this
           /\ (last.ret = 0 /\ last'.ret = 0) => gpio' = gpio ) ]_vars

\* C18 witness: 30.5 dB set on a 64-level handle that already stores 30.5
SameAttenuationSetAgain ==
  /\ last.op = "sddc_set_hf_attenuation"
  /\ last.pre.hf_attenuator_levels = 64
  /\ last.arg = 305
  /\ last.pre.hf_attenuation = 305
  /\ last.ret = 0
  /\ Len(last.trace) = 1

(* C19: a call that returns an error without a failed transport call (a    *)
(* validation error) has issued no transport command, GPIO write or        *)
(* register write and has left every field of the handle as it was; and    *)
(* the invalid arguments are refused so: an HF attenuation outside the     *)
(* range of the class, a VGA index outside 0..127, an RF mode that is not  *)
(* HF or VHF, VHF without a tuner, an LED pattern with a bit outside the   *)
(* three colours given to sddc_led_on, sddc_led_off or sddc_led_toggle.    *)
ValidationErrorBeforeAnyWrite ==
  LET pre == last.pre
      refused == last.ret = -1 /\ last.trace = <<>> /\ this = pre
  IN /\ ( /\ last.op \in {"sddc_set_hf_attenuation", "sddc_set_hf_vga_gain",
                          "sddc_set_rf_mode", "sddc_led_on", "sddc_led_off",
                          "sddc_led_toggle"}
          /\ last.ret = -1
          /\ \A i \in 1..Len(last.trace) : last.trace[i].ok )
        => refused
     /\ ( /\ last.op = "sddc_set_hf_attenuation"
          /\ \/ pre.hf_attenuator_levels = 3 /\ (last.arg <= -10 \/ last.arg >= 210)
             \/ pre.hf_attenuator_levels = 32 /\ (last.arg < 0 \/ last.arg > 310)
             \/ pre.hf_attenuator_levels = 64 /\ (last.arg < 0 \/ last.arg > 315) )
        => refused
     /\ ( /\ last.op = "sddc_set_hf_vga_gain"
          /\ pre.hf_vga_levels = 127
          /\ last.arg \notin 0..127 )
        => refused
     /\ ( /\ last.op = "sddc_set_rf_mode"
          /\ \/ last.arg \notin {HF_MODE, VHF_MODE}
             \/ last.arg = VHF_MODE /\ ~pre.has_vhf_tuner )
        => refused
     /\ ( /\ last.op \in {"sddc_led_on", "sddc_led_off", "sddc_led_toggle"}
          /\ last.arg \div 8 # 0 )
        => refused

\* C19 witness: sddc_led_toggle refused for a pattern with a bit outside
\* the three colours
LedToggleRefusedPattern ==
  /\ last.op = "sddc_led_toggle"
  /\ last.arg = 9
  /\ last.ret = -1
  /\ last.trace = <<>>

(* C20: persisted values change only after the hardware write is           *)
(* acknowledged.  When the one transport write of a call to                *)
(* sddc_set_hf_attenuation, sddc_set_hf_vga_gain or                        *)
(* sddc_set_tuner_frequency fails, the call returns -1 and hf_attenuation, *)
(* hf_vga_gain and tuner_frequency are as before the call; when it         *)
(* succeeds the call returns 0 and the field of the call holds the new     *)
(* value.                                                                  *)
PersistOnlyAfterAcknowledgedWrite ==
  ( /\ last.op \in {"sddc_set_hf_attenuation", "sddc_set_hf_vga_gain",
                    "sddc_set_tuner_frequency"}
    /\ Len(last.trace) = 1 ) =>
    IF last.trace[1].ok
    THEN /\ last.ret = 0
         /\ last.op = "sddc_set_hf_attenuation" => this.hf_attenuation = last.arg
         /\ last.op = "sddc_set_hf_vga_gain" => this.hf_vga_gain = last.arg
         /\ last.op = "sddc_set_tuner_frequency" => this.tuner_frequency = last.arg
    ELSE /\ last.ret = -1
         /\ this.hf_attenuation = last.pre.hf_attenuation
         /\ this.hf_vga_gain = last.pre.hf_vga_gain
         /\ this.tuner_frequency = last.pre.tuner_frequency

(* C21: sddc_open maps the model id of the TESTFX3 reply to a fixed        *)
(* profile: BBRF103 and RX888 have a 3-level attenuator, no VGA, a clock   *)
(* source, a VHF tuner and the range 10 kHz .. 1750 MHz; RX888R2 has a     *)
(* 64-level attenuator, a 127-level VGA, clock source, tuner and the same  *)
(* range; HF103 has a 32-level attenuator, no VGA, no clock source, no     *)
(* tuner and the range 0 .. 32 MHz; every other id, unknown ones too, is   *)
(* accepted (the handle is READY) with no attenuator, no VGA, no clock     *)
(* source, no tuner and the range 0 .. 0.                                  *)
OpenGivesProfileOfModel ==
  last.op = "sddc_open" =>
    /\ this.status = SDDC_STATUS_READY
    /\ this.model = last.arg
    /\ this.model \in {HW_BBRF103, HW_RX888} =>
         /\ this.hf_attenuator_levels = 3 /\ this.hf_vga_levels = 0
         /\ this.has_clock_source /\ this.has_vhf_tuner
         /\ this.frequency_range = <<10000, 1750000000>>
    /\ this.model = HW_RX888R2 =>
         /\ this.hf_attenuator_levels = 64 /\ this.hf_vga_levels = 127
         /\ this.has_clock_source /\ this.has_vhf_tuner
         /\ this.frequency_range = <<10000, 1750000000>>
    /\ this.model = HW_HF103 =>
         /\ this.hf_attenuator_levels = 32 /\ this.hf_vga_levels = 0
         /\ ~this.has_clock_source /\ ~this.has_vhf_tuner
         /\ this.frequency_range = <<0, 32000000>>
    /\ this.model \notin {HW_BBRF103, HW_RX888, HW_RX888R2, HW_HF103} =>
         /\ this.hf_attenuator_levels = 0 /\ this.hf_vga_levels = 0
         /\ ~this.has_clock_source /\ ~this.has_vhf_tuner
         /\ this.frequency_range = <<0, 0>>

\* C21 witness: a handle opened on a device that reports an id outside
\* enum SDDCHWModel
OpenedUnknownModel ==
  /\ last.op = "sddc_open"
  /\ last.arg = 6
  /\ this.status = SDDC_STATUS_READY
  /\ this.hf_attenuator_levels = 0

(* C22: the profile of the handle is fixed at sddc_open: no call (RF mode, *)
(* attenuation, gain, tuner frequency, sample rate, frequency correction,  *)
(* session configuration, start, stop, reset, read, close), successful or  *)
(* not, changes model, firmware, has_clock_source, has_vhf_tuner,          *)
(* hf_attenuator_levels, hf_vga_levels or frequency_range; they are what   *)
(* sddc_open computed from the model id.                                   *)
ProfileFixedAtOpen ==
  /\ this.model = last.pre.model
  /\ this.firmware = last.pre.firmware
  /\ this.has_clock_source = last.pre.has_clock_source
  /\ this.has_vhf_tuner = last.pre.has_vhf_tuner
  /\ this.hf_attenuator_levels = last.pre.hf_attenuator_levels
  /\ this.hf_vga_levels = last.pre.hf_vga_levels
  /\ this.frequency_range = last.pre.frequency_range
  /\ \E fw \in FirmwareBytes :
       LET h == sddc_open(<<this.model, fw[1], fw[2], 0>>)
       IN /\ this.firmware = h.firmware
          /\ this.has_clock_source = h.has_clock_source
          /\ this.has_vhf_tuner = h.has_vhf_tuner
          /\ this.hf_attenuator_levels = h.hf_attenuator_levels
          /\ this.hf_vga_levels = h.hf_vga_levels
          /\ this.frequency_range = h.frequency_range

\* C22 witness: a successful switch to VHF followed by a successful tuner
\* frequency change, both of which changed the handle
TunedInVhfMode ==
  /\ last.op = "sddc_set_tuner_frequency"
  /\ last.ret = 0
  /\ last.pre.rf_mode = VHF_MODE
  /\ this.tuner_frequency # DEFAULT_TUNER_FREQUENCY

(* C23: sddc_reset_status called on a handle that holds no streaming       *)
(* session (this->streaming is null) returns -1 and does not call the      *)
(* reset operation of the streaming collaborator; it never returns 0       *)
(* when there is no session.                                               *)
ResetWithoutSessionIsRefused ==
  (last.op = "sddc_reset_status" /\ last.pre.streaming = 0) =>
    /\ last.ret = -1
    /\ last.trace = <<>>

(* C24: a successful sddc_set_rf_mode(HF_MODE) issues, in this order,      *)
(* R82XXSTDBY, the hardware write that encodes the stored hf_attenuation,  *)
(* and, only when the handle has a VGA, the register write that encodes    *)
(* the stored hf_vga_gain; hf_attenuation and hf_vga_gain are the same     *)
(* after the call as before it.                                            *)
HfModeWritesAttenuationThenGain ==
  (last.op = "sddc_set_rf_mode" /\ last.arg = HF_MODE /\ last.ret = 0) =>
    LET pre == last.pre
        vga == pre.hf_vga_levels # 0
        t == last.trace
    IN /\ Len(t) = IF vga THEN 3 ELSE 2
       /\ t[1].cmd = "R82XXSTDBY"
       /\ t[2].cmd \in {"GPIO_SET", "SET_FW_REGISTER"}
       /\ t[2].cmd = "SET_FW_REGISTER" => t[2].a = FW_REG_DAT31_ATT
       /\ vga => (t[3].cmd = "SET_FW_REGISTER" /\ t[3].a = FW_REG_AD8370_VGA)
       /\ this.hf_attenuation = pre.hf_attenuation
       /\ this.hf_vga_gain = pre.hf_vga_gain

(* C24 as amended: a successful sddc_set_rf_mode(HF_MODE) issues, in this  *)
(* order, R82XXSTDBY, then (only when the handle has an attenuator) the    *)
(* hardware write that encodes the stored hf_attenuation, then (only when  *)
(* the handle has a VGA) the register write that encodes the stored        *)
(* hf_vga_gain; both stored values are the same after the call as before,  *)
(* and on a 3-level handle the select lines hold the pattern of the stored *)
(* attenuation again, whatever the mode was before.                        *)
HfModeReappliesStoredSettings ==
  (last.op = "sddc_set_rf_mode" /\ last.arg = HF_MODE /\ last.ret = 0) =>
    LET pre == last.pre
        att == pre.hf_attenuator_levels # 0
        vga == pre.hf_vga_levels # 0
        t == last.trace
        ia == 2
        ig == IF att THEN 3 ELSE 2
        v == pre.hf_attenuation
        pattern == CASE TruncTenths(v) = 0 -> GPIO_ATT_SEL1
                     [] TruncTenths(v) = 10 -> GPIO_ATT_SEL0 + GPIO_ATT_SEL1
                     [] OTHER -> GPIO_ATT_SEL0
    IN /\ Len(t) = 1 + (IF att THEN 1 ELSE 0) + (IF vga THEN 1 ELSE 0)
       /\ \A i \in 1..Len(t) : t[i].ok
       /\ t[1].cmd = "R82XXSTDBY"
       /\ pre.hf_attenuator_levels = 3 =>
            /\ t[ia].cmd = "GPIO_SET"
            /\ t[ia].a = pattern
            /\ t[ia].b = GPIO_ATT_SEL0 + GPIO_ATT_SEL1
            /\ BitsValue(gpio \cap {GPIO_ATT_SEL0, GPIO_ATT_SEL1}) = pattern
       /\ pre.hf_attenuator_levels = 32 =>
            /\ t[ia].cmd = "SET_FW_REGISTER"
            /\ t[ia].a = FW_REG_DAT31_ATT
            /\ t[ia].b = TruncTenths(v)
       /\ pre.hf_attenuator_levels = 64 =>
            /\ t[ia].cmd = "SET_FW_REGISTER"
            /\ t[ia].a = FW_REG_DAT31_ATT
            /\ t[ia].b = TruncTenths(2 * v)
       /\ vga =>
            /\ t[ig].cmd = "SET_FW_REGISTER"
            /\ t[ig].a = FW_REG_AD8370_VGA
            /\ t[ig].b = IF pre.hf_vga_gain > 18 THEN 128 + (pre.hf_vga_gain - 18 + 3)
                                                 ELSE pre.hf_vga_gain + 1
       /\ this.hf_attenuation = pre.hf_attenuation
       /\ this.hf_vga_gain = pre.hf_vga_gain
       /\ this.rf_mode = HF_MODE

\* C24 witness: an RX888R2 handle that stored 20.5 dB and index 19 comes
\* back from VHF to HF
BackToHfWithStoredSettings ==
  /\ last.op = "sddc_set_rf_mode"
  /\ last.arg = HF_MODE
  /\ last.ret = 0
  /\ last.pre.rf_mode = VHF_MODE
  /\ last.pre.hf_attenuation = 205
  /\ last.pre.hf_vga_gain = 19
  /\ Len(last.trace) = 3

(* C25: no call uses a streaming session after its release: once           *)
(* sddc_stop_streaming has called streaming_close, whether the stop then   *)
(* returns 0 or fails at a later step with the status left STREAMING, no   *)
(* later sddc_start_streaming, sddc_stop_streaming, sddc_reset_status or   *)
(* sddc_read_sync sets the rate of, starts, stops, closes, resets or reads *)
(* the released session.                                                   *)
NoCallOnReleasedSession ==
  \A i \in 1..Len(last.trace) :
    ~(last.trace[i].dead /\ last.trace[i].a \in SessionIds)

(* C26: the two attenuator select lines agree with rf_mode.  The VHF       *)
(* pattern (both lines low) and the patterns of 0, 10 and 20 dB are four   *)
(* different patterns; after a successful sddc_set_rf_mode(VHF_MODE) both  *)
(* lines are low; and a sddc_set_hf_attenuation call made while rf_mode is *)
(* VHF_MODE makes no successful write that puts an HF pattern on them.     *)
SelectLinesAgreeWithRfMode ==
  /\ Cardinality({{}, {GPIO_ATT_SEL1}, {GPIO_ATT_SEL0, GPIO_ATT_SEL1},
                  {GPIO_ATT_SEL0}}) = 4
  /\ (last.op = "sddc_set_rf_mode" /\ last.arg = VHF_MODE /\ last.ret = 0) =>
       (this.rf_mode = VHF_MODE /\ gpio \cap {GPIO_ATT_SEL0, GPIO_ATT_SEL1} = {})
  /\ (last.op = "sddc_set_hf_attenuation" /\ last.pre.rf_mode = VHF_MODE) =>
       \A i \in 1..Len(last.trace) :
         ~(last.trace[i].cmd = "GPIO_SET" /\ last.trace[i].ok /\ last.trace[i].a # 0)

====
